---- MODULE Spec2Model ----
(***************************************************************************)
(* Multi-view capture of the STL -> OpenSCAD reconstruction tool.          *)
(*                                                                         *)
(* The model follows ScreenshotHandler / captureMultiViews (the 36-view    *)
(* revision of StlScene) and the labels App.tsx attaches to the frames.    *)
(*                                                                         *)
(* Numbers: lengths are fixed-point integers in thousandths of a scene     *)
(* unit (1000 = 1.0), the stand-in for the doubles of the source.          *)
(* Products and quotients round toward zero.                               *)
(***************************************************************************)
EXTENDS Integers, Sequences, FiniteSets, TLC

\* ------------------------------------------------------------------------
\* Bounds of the model (not program constants)
\* ------------------------------------------------------------------------

\* files chosen in the file input in one behaviour
MaxUploads == 2

\* clicks on the action button in one behaviour
MaxClicks == 2

\* frames a capture hands to App in the model of handleGenerate
MaxImages == 3

\* replacements of the default controller in one behaviour
MaxReplacements == 1

\* capture calls started in one behaviour (they may overlap)
MaxCalls == 2

\* animation frames of the render loop taken in one behaviour
MaxFrames == 1

\* re-renders of App while one scene is mounted
MaxRenders == 2

\* ------------------------------------------------------------------------
\* State
\* ------------------------------------------------------------------------

VARIABLES
  scene,        \* the scene graph in traversal order
  camera,       \* position, rotation, up, fov of the live camera
  controls,     \* the OrbitControls object: enabled, autoRotate
  controlsRef,  \* controlsRef.current: "null" or "controls"
  canvas,       \* what gl.domElement shows: the last image rendered
  calls,        \* the invocations of captureMultiViews, by number
  started,      \* how many invocations have started
  timers,       \* the pending 80 ms timers, in expiry order (call numbers)
  frames,       \* animation frames taken so far
  handed,       \* how often onSnapshotReady was invoked for the mounted scene
  app,          \* the state of the App component and of its handlers in flight
  retired       \* the controller objects useThree handed out earlier, as they were left

vars == << scene, camera, controls, controlsRef, canvas, calls, started, timers, frames, handed, app, retired >>

\* ------------------------------------------------------------------------
\* Fixed-point arithmetic
\* ------------------------------------------------------------------------

Abs(n) == IF n < 0 THEN -n ELSE n

Sign(n) == IF n < 0 THEN -1 ELSE 1

\* a / b rounded toward zero (b # 0)
Quot(a, b) == Sign(a) * Sign(b) * (Abs(a) \div Abs(b))

\* scene units -> thousandths
Units(n) == n * 1000

\* product of two fixed-point numbers
Mul(a, b) == Quot(a * b, 1000)

\* Newton's iteration for the integer square root
RECURSIVE ISqrtFrom(_, _)
ISqrtFrom(n, r) ==
  LET next == (r + (n \div r)) \div 2
  IN  IF next >= r THEN r ELSE ISqrtFrom(n, next)

\* largest r with r * r <= n (Math.sqrt)
ISqrt(n) == IF n < 2 THEN n ELSE ISqrtFrom(n, n)

Max2(a, b) == IF a >= b THEN a ELSE b

Max3(a, b, c) == Max2(a, Max2(b, c))

\* ------------------------------------------------------------------------
\* Vectors (THREE.Vector3)
\* ------------------------------------------------------------------------

Vec(a, b, c) == [x |-> a, y |-> b, z |-> c]

Zero == Vec(0, 0, 0)

VAdd(u, v) == Vec(u.x + v.x, u.y + v.y, u.z + v.z)

VSub(u, v) == Vec(u.x - v.x, u.y - v.y, u.z - v.z)

\* Vector3.multiplyScalar, the scalar in thousandths
VScale(u, s) == Vec(Mul(u.x, s), Mul(u.y, s), Mul(u.z, s))

Cross(u, v) == Vec(u.y * v.z - u.z * v.y, u.z * v.x - u.x * v.z, u.x * v.y - u.y * v.x)

Dot(u, v) == u.x * v.x + u.y * v.y + u.z * v.z

\* Vector3.length
VLength(u) == ISqrt(Dot(u, u))

\* Vector3.normalize: divideScalar(length() || 1)
Normalize(u) ==
  LET len == VLength(u)
  IN  IF len = 0 THEN u
      ELSE Vec(Quot(u.x * 1000, len), Quot(u.y * 1000, len), Quot(u.z * 1000, len))

\* The ray a vector points along, scaled so that its largest component is
\* 1.0: two vectors have the same Heading iff they are positive multiples of
\* one another (up to rounding).  Used for the orientation lookAt derives.
Heading(u) ==
  LET m == Max3(Abs(u.x), Abs(u.y), Abs(u.z))
  IN  IF m = 0 THEN u
      ELSE Vec(Quot(u.x * 1000, m), Quot(u.y * 1000, m), Quot(u.z * 1000, m))

\* ------------------------------------------------------------------------
\* Orientation table and pose generation (captureMultiViews, steps 3 and 4)
\* ------------------------------------------------------------------------

Orientation(n, v, u) == [name |-> n, vec |-> v, up |-> u]

\* mutant of baseOrientations: Top and Bottom get the world-up vector too
baseOrientationsWorldUp ==
  << Orientation("Top",          Vec(0, 1, 0),   Vec(0, 1, 0)),
     Orientation("Bottom",       Vec(0, -1, 0),  Vec(0, 1, 0)),
     Orientation("Front",        Vec(0, 0, 1),   Vec(0, 1, 0)),
     Orientation("Back",         Vec(0, 0, -1),  Vec(0, 1, 0)),
     Orientation("Left",         Vec(-1, 0, 0),  Vec(0, 1, 0)),
     Orientation("Right",        Vec(1, 0, 0),   Vec(0, 1, 0)),
     Orientation("Front-Right",  Vec(1, 0, 1),   Vec(0, 1, 0)),
     Orientation("Right-Back",   Vec(1, 0, -1),  Vec(0, 1, 0)),
     Orientation("Back-Left",    Vec(-1, 0, -1), Vec(0, 1, 0)),
     Orientation("Left-Front",   Vec(-1, 0, 1),  Vec(0, 1, 0)),
     Orientation("Top-Front",    Vec(0, 1, 1),   Vec(0, 1, 0)),
     Orientation("Front-Bottom", Vec(0, -1, 1),  Vec(0, 1, 0)),
     Orientation("Bottom-Back",  Vec(0, -1, -1), Vec(0, 1, 0)),
     Orientation("Back-Top",     Vec(0, 1, -1),  Vec(0, 1, 0)),
     Orientation("Top-Right",    Vec(1, 1, 0),   Vec(0, 1, 0)),
     Orientation("Right-Bottom", Vec(1, -1, 0),  Vec(0, 1, 0)),
     Orientation("Bottom-Left",  Vec(-1, -1, 0), Vec(0, 1, 0)),
     Orientation("Left-Top",     Vec(-1, 1, 0),  Vec(0, 1, 0)) >>

\* mutant of baseOrientations: Top and Bottom both get the front-pointing
\* up-vector (0, 0, 1)
baseOrientationsFrontUp ==
  [j \in 1..18 |->
     IF j <= 2
       THEN Orientation(baseOrientationsWorldUp[j].name, baseOrientationsWorldUp[j].vec,
                        Vec(0, 0, 1))
       ELSE baseOrientationsWorldUp[j]]

\* const baseOrientations = [...]: 6 cardinal views, then three rings of 4
baseOrientations ==
  << Orientation("Top",          Vec(0, 1, 0),   Vec(0, 0, -1)),
     Orientation("Bottom",       Vec(0, -1, 0),  Vec(0, 0, 1)),
     Orientation("Front",        Vec(0, 0, 1),   Vec(0, 1, 0)),
     Orientation("Back",         Vec(0, 0, -1),  Vec(0, 1, 0)),
     Orientation("Left",         Vec(-1, 0, 0),  Vec(0, 1, 0)),
     Orientation("Right",        Vec(1, 0, 0),   Vec(0, 1, 0)),
     Orientation("Front-Right",  Vec(1, 0, 1),   Vec(0, 1, 0)),
     Orientation("Right-Back",   Vec(1, 0, -1),  Vec(0, 1, 0)),
     Orientation("Back-Left",    Vec(-1, 0, -1), Vec(0, 1, 0)),
     Orientation("Left-Front",   Vec(-1, 0, 1),  Vec(0, 1, 0)),
     Orientation("Top-Front",    Vec(0, 1, 1),   Vec(0, 1, 0)),
     Orientation("Front-Bottom", Vec(0, -1, 1),  Vec(0, 1, 0)),
     Orientation("Bottom-Back",  Vec(0, -1, -1), Vec(0, 1, 0)),
     Orientation("Back-Top",     Vec(0, 1, -1),  Vec(0, 1, 0)),
     Orientation("Top-Right",    Vec(1, 1, 0),   Vec(0, 1, 0)),
     Orientation("Right-Bottom", Vec(1, -1, 0),  Vec(0, 1, 0)),
     Orientation("Bottom-Left",  Vec(-1, -1, 0), Vec(0, 1, 0)),
     Orientation("Left-Top",     Vec(-1, 1, 0),  Vec(0, 1, 0)) >>

\* new THREE.Vector3(a[0], a[1], a[2]) for an array of the table
ToVector3(a) == Vec(Units(a.x), Units(a.y), Units(a.z))

\* mutant of View: the table vector is scaled without being normalized
ViewUnnormalized(n, o, dist) ==
  [name |-> n, offset |-> VScale(ToVector3(o.vec), dist), up |-> ToVector3(o.up)]

\* one entry of views: the direction normalized, then scaled in place
View(n, o, dist) ==
  [name |-> n, offset |-> VScale(Normalize(ToVector3(o.vec)), dist), up |-> ToVector3(o.up)]

\* Set A: baseOrientations.forEach(o => views.push({name: o.name, ...standardDist}))
GlobalViews(standardDist) ==
  [j \in 1..Len(baseOrientations) |->
     View(baseOrientations[j].name, baseOrientations[j], standardDist)]

\* mutant of LocalViews: Set B walks the table from its end
LocalViewsReversed(macroDist) ==
  [j \in 1..Len(baseOrientations) |->
     View(baseOrientations[Len(baseOrientations) + 1 - j].name \o " Detail",
          baseOrientations[Len(baseOrientations) + 1 - j], macroDist)]

\* Set B: baseOrientations.forEach(o => views.push({name: `${o.name} Detail`, ...macroDist}))
LocalViews(macroDist) ==
  [j \in 1..Len(baseOrientations) |->
     View(baseOrientations[j].name \o " Detail", baseOrientations[j], macroDist)]

\* mutant of StandardDist: the 1.5 padding of the six-view revision
StandardDistPadding15(fitDistance) == Quot(fitDistance * 15, 10)

\* const standardDist = fitDistance * 1.6
StandardDist(fitDistance) == Quot(fitDistance * 16, 10)

\* const macroDist = fitDistance * 0.55
MacroDist(fitDistance) == Quot(fitDistance * 55, 100)

\* mutant of BuildViews: Set B is never pushed
BuildViewsWithoutSetB(fitDistance) == GlobalViews(StandardDist(fitDistance))

\* the views array after both forEach loops
BuildViews(fitDistance) ==
  GlobalViews(StandardDist(fitDistance)) \o LocalViews(MacroDist(fitDistance))

\* ------------------------------------------------------------------------
\* Scene, bounding box and fit distance (captureMultiViews, steps 1 and 2)
\* ------------------------------------------------------------------------

\* THREE.Box3: empty is the box of an object without vertices (min = +inf,
\* max = -inf); min and max are only read when the box is not empty
Box(lo, hi) == [empty |-> FALSE, min |-> lo, max |-> hi]

EmptyBox == [empty |-> TRUE, min |-> Zero, max |-> Zero]

\* an object of the scene graph; box is its world-space bounding box
SceneObject(m, n, b) == [isMesh |-> m, name |-> n, box |-> b]

NoMesh == [isMesh |-> FALSE, name |-> "", box |-> EmptyBox]

\* Box3.getCenter: (0,0,0) for an empty box, else the midpoint
BoxCenter(b) ==
  IF b.empty THEN Zero
  ELSE Vec(Quot(b.min.x + b.max.x, 2), Quot(b.min.y + b.max.y, 2), Quot(b.min.z + b.max.z, 2))

\* Box3.getSize: (0,0,0) for an empty box, else max - min
BoxSize(b) == IF b.empty THEN Zero ELSE VSub(b.max, b.min)

\* the indices scene.traverse visits that satisfy the first test
NamedMeshes(sc) == {k \in 1..Len(sc) : sc[k].isMesh /\ sc[k].name = "target-mesh"}

\* the indices scene.traverse visits that satisfy the fallback test
AnyMeshes(sc) == {k \in 1..Len(sc) : sc[k].isMesh}

\* traverse assigns targetMesh at every match: the last match stays
LastOf(S) == CHOOSE k \in S : \A m \in S : m <= k

\* mutant of ResolveTarget: only the second traversal, the name is ignored
ResolveAnyMesh(sc) ==
  IF AnyMeshes(sc) # {} THEN sc[LastOf(AnyMeshes(sc))] ELSE NoMesh

\* mutant of ResolveTarget: the mesh found by the first invocation is kept
ResolveTargetOfFirstCall(sc) ==
  IF started > 0 THEN calls[1].targetMesh
  ELSE IF NamedMeshes(sc) # {} THEN sc[LastOf(NamedMeshes(sc))]
  ELSE IF AnyMeshes(sc) # {} THEN sc[LastOf(AnyMeshes(sc))]
  ELSE NoMesh

\* let targetMesh = null; traverse (named); if (!targetMesh) traverse (any mesh)
ResolveTarget(sc) ==
  IF NamedMeshes(sc) # {} THEN sc[LastOf(NamedMeshes(sc))]
  ELSE IF AnyMeshes(sc) # {} THEN sc[LastOf(AnyMeshes(sc))]
  ELSE NoMesh

\* Math.tan(fov * (Math.PI / 180) / 2) in thousandths, for the fields of
\* view the model uses
TanHalfFov(fov) ==
  CASE fov = 40  -> 364
    [] fov = 60  -> 577
    [] fov = 90  -> 1000
    [] fov = 120 -> 1732

\* mutant of ExactFitDist: the width of the box instead of its largest dimension
ExactFitDistOfWidth(b, fov) == Abs(Quot(Quot(BoxSize(b).x, 2) * 1000, TanHalfFov(fov)))

\* mutant of ExactFitDist: the whole largest dimension instead of its half
ExactFitDistFullSize(b, fov) ==
  LET size   == BoxSize(b)
      maxDim == Max3(size.x, size.y, size.z)
  IN  Abs(Quot(maxDim * 1000, TanHalfFov(fov)))

\* const exactFitDist = Math.abs((maxDim / 2) / Math.tan(fov / 2))
ExactFitDist(b, fov) ==
  LET size   == BoxSize(b)
      maxDim == Max3(size.x, size.y, size.z)
  IN  Abs(Quot(Quot(maxDim, 2) * 1000, TanHalfFov(fov)))

\* let fitDistance = 100
FallbackFitDistance == Units(100)

\* mutant of FitDistanceOf: the distance is computed without the null test
FitDistanceWithoutNullTest(target, fov) == ExactFitDist(target.box, fov)

\* fitDistance after "if (targetMesh) { ... fitDistance = exactFitDist }"
FitDistanceOf(target, fov) ==
  IF target.isMesh THEN ExactFitDist(target.box, fov) ELSE FallbackFitDistance

\* mutant of CenterOf: the poses are built around the origin
CenterAtOrigin(target) == Zero

\* center after "if (targetMesh) { ... box.getCenter(center) }"
CenterOf(target) == IF target.isMesh THEN BoxCenter(target.box) ELSE Zero

\* ------------------------------------------------------------------------
\* Camera and OrbitControls
\* ------------------------------------------------------------------------

\* the orientation camera.lookAt(at) gives a camera at eye with up-vector up
LookAt(eye, at, up) == [fwd |-> Heading(VSub(at, eye)), up |-> up]

\* OrbitControls.target (never moved by this program)
ControlsTarget == Zero

\* one auto-rotation step about the vertical axis through the target:
\* 2 pi / 60 / 60 * autoRotateSpeed radians (sin = 0.001745, 1 - cos = 0.0000015)
AutoRotate(p) ==
  LET o == VSub(p, ControlsTarget)
      r == Vec(o.x - Quot(o.x * 15, 10000000) + Quot(o.z * 1745, 1000000),
               o.y,
               o.z - Quot(o.z * 15, 10000000) - Quot(o.x * 1745, 1000000))
  IN  VAdd(ControlsTarget, r)

\* OrbitControls.update(): the auto-rotation when it is switched on, then
\* position = target + offset and camera.lookAt(target)
ControlsUpdate(cam, ctl) ==
  LET pos == IF ctl.autoRotate THEN AutoRotate(cam.position) ELSE cam.position
  IN  [cam EXCEPT !.position = pos, !.rotation = LookAt(pos, ControlsTarget, cam.up)]

\* <Canvas camera={{ position: [50, 50, 50], fov: 40 }}>
InitialCamera ==
  LET pos == Vec(Units(50), Units(50), Units(50))
      up  == Vec(0, Units(1), 0)
  IN  [position |-> pos, rotation |-> LookAt(pos, ControlsTarget, up), up |-> up, fov |-> 40]

\* <OrbitControls makeDefault autoRotate autoRotateSpeed={1} />
InitialControls == [enabled |-> TRUE, autoRotate |-> TRUE]

\* what gl.render(scene, camera) draws: the scene seen from the camera
Image(cam) == [position |-> cam.position, rotation |-> cam.rotation]

\* ------------------------------------------------------------------------
\* Scenes the capture may find: useThree().scene is the input of
\* captureMultiViews. StlScene mounts lights, the loaded mesh inside
\* <Suspense>/<Center> (so its box is centred on the origin) and the ground
\* grid; the scene holding no mesh at all is what the handler is handed
\* when it is mounted without the grid.
\* ------------------------------------------------------------------------

\* <ambientLight>, <directionalLight>: objects that are not meshes
Light == SceneObject(FALSE, "", EmptyBox)

\* <Grid position={[0, -0.01, 0]} args={[100, 100]}>: an unnamed mesh over a
\* 100 x 100 plane geometry (laid out in the shader), mounted after the target
GridMesh ==
  SceneObject(TRUE, "",
              Box(Vec(Units(-50), Units(-50) - 10, 0), Vec(Units(50), Units(50) - 10, 0)))

\* <mesh name="target-mesh">: a cube of side 2
CubeMesh ==
  SceneObject(TRUE, "target-mesh",
              Box(Vec(Units(-1), Units(-1), Units(-1)), Vec(Units(1), Units(1), Units(1))))

\* a target with three different dimensions, 4 x 2 x 6
SlabMesh ==
  SceneObject(TRUE, "target-mesh",
              Box(Vec(Units(-2), Units(-1), Units(-3)), Vec(Units(2), Units(1), Units(3))))

\* a target whose vertices all coincide: a box of size zero on every axis
PointMesh == SceneObject(TRUE, "target-mesh", Box(Zero, Zero))

\* a target whose geometry holds no vertex (an STL file of zero facets):
\* its box is empty
HollowMesh == SceneObject(TRUE, "target-mesh", EmptyBox)

Scenes ==
  { << Light >>,
    << Light, GridMesh >>,
    << Light, CubeMesh, GridMesh >>,
    << Light, SlabMesh, GridMesh >>,
    << Light, PointMesh, GridMesh >>,
    << Light, HollowMesh, GridMesh >> }

\* ------------------------------------------------------------------------
\* App: upload, generate, the UI state
\* ------------------------------------------------------------------------

\* useState initial values; apiKeyMissing is what the mount effect leaves
InitialApp(keyMissing) ==
  [ appState           |-> "IDLE",
    geometry           |-> "null",
    result             |-> "null",
    errorMsg           |-> "null",
    apiKeyMissing      |-> keyMissing,
    snapshots          |-> << >>,
    captureSnapshotRef |-> "null",
    refMount           |-> 0,        \* the mount whose capture function the ref holds
    mounted            |-> 0,        \* the <StlScene> on screen (0: none)
    mounts             |-> 0,        \* <StlScene> elements mounted so far
    readers            |-> << >>,    \* FileReaders reading, by file name
    readyTimers        |-> 0,        \* pending 100 ms timers
    uploads            |-> 0,        \* files chosen so far
    gens               |-> << >>,    \* the invocations of handleGenerate
    alerts             |-> 0,        \* alert() dialogs shown
    captureCalls       |-> 0,        \* invocations of captureSnapshotRef.current
    requests           |-> << >> ]   \* image lists passed to generateScadFromImage

Files == {"a.stl", "b.stl"}

RemoveAt(s, k) == [j \in 1..(Len(s) - 1) |-> IF j < k THEN s[j] ELSE s[j + 1]]

\* gl.domElement.toDataURL('image/jpeg', 0.90) of frame k, on a canvas of
\* 1600 x 1200 pixels
DataUrl(k) ==
  [ header |-> "data:image/jpeg;base64",
    body   |-> [frame |-> k, quality |-> 90, width |-> 1600, height |-> 1200] ]

\* what the capture promise resolves to in the model of handleGenerate
CapturedFrames == [k \in 1..MaxImages |-> DataUrl(k)]

\* optimizeImage, when the image loads and the 2d context exists: at most
\* 800 pixels in the larger dimension, re-encoded at quality 0.8
OptimizeImage(dataUrl) ==
  LET w == dataUrl.body.width
      h == dataUrl.body.height
      size == IF w > h
                THEN IF w > 800 THEN [width |-> 800, height |-> (h * 800) \div w]
                     ELSE [width |-> w, height |-> h]
              ELSE IF h > 800 THEN [width |-> (w * 800) \div h, height |-> 800]
                   ELSE [width |-> w, height |-> h]
  IN  [ header |-> "data:image/jpeg;base64",
        body   |-> [frame |-> dataUrl.body.frame, quality |-> 80,
                    width |-> size.width, height |-> size.height] ]

\* s.split(',')[1]
StripHeader(dataUrl) == dataUrl.body

\* mutant of PromiseAll: the values in the order the promises fulfilled
PromiseAllInCompletionOrder(n, done) == [k \in 1..n |-> done[k].value]

\* Promise.all over n promises that fulfilled in the order of done: the
\* value at position i is that of the i-th promise
PromiseAll(n, done) ==
  [i \in 1..n |-> (CHOOSE d \in {done[k] : k \in DOMAIN done} : d.index = i).value]

\* an invocation of handleGenerate
NewGen ==
  [ pc   |-> "capturing",   \* "returned" | "capturing" | "optimizing" | "inferring" | "finished"
    raw  |-> << >>,         \* rawSnapshots
    done |-> << >>,         \* the optimizations fulfilled so far, in that order
    sent |-> << >>,         \* base64Images
    boundTo |-> 0,          \* the mount whose gl, scene, camera the capture call uses
    outcome |-> "none" ]    \* "complete" | "error"

\* whether App renders <StlScene>
SceneMounted(a) ==
  /\ a.appState # "LOADING_STL"
  /\ ~(a.appState \in {"ANALYZING", "COMPLETE"} /\ a.snapshots # << >>)
  /\ a.geometry # "null"

\* whether App renders the action button
ButtonShown(a) ==
  /\ a.geometry # "null"
  /\ a.appState # "ANALYZING"
  /\ a.appState # "LOADING_STL"

\* App re-renders after the state change from old to new: a <StlScene> that
\* stays on screen is kept, one that comes on screen is a new mount (new
\* canvas, renderer, scene, camera), one that leaves is unmounted
Rendered(old, new) ==
  IF ~SceneMounted(new) THEN [new EXCEPT !.mounted = 0]
  ELSE IF old.mounted # 0 THEN new
  ELSE [new EXCEPT !.mounted = old.mounts + 1, !.mounts = old.mounts + 1]

\* handleFileUpload with a file chosen; the input is disabled while ANALYZING
FileUpload ==
  /\ app.uploads < MaxUploads
  /\ app.appState # "ANALYZING"
  /\ \E f \in Files :
       app' = Rendered(app, [app EXCEPT !.result = "null", !.errorMsg = "null", !.snapshots = << >>,
                          !.appState = "LOADING_STL",
                          !.readers = Append(@, f), !.uploads = @ + 1])
  /\ UNCHANGED << retired, scene, camera, controls, controlsRef, canvas, calls, started, timers, frames, handed >>

\* reader.onload
ReaderLoad ==
  /\ \E k \in DOMAIN app.readers :
       app' = Rendered(app, [app EXCEPT !.geometry = app.readers[k],
                          !.readyTimers = @ + 1,
                          !.readers = RemoveAt(@, k)])
  /\ UNCHANGED << retired, scene, camera, controls, controlsRef, canvas, calls, started, timers, frames, handed >>

\* reader.onerror
ReaderError ==
  /\ \E k \in DOMAIN app.readers :
       app' = Rendered(app, [app EXCEPT !.errorMsg = "cannot read file",
                          !.appState = "ERROR",
                          !.readers = RemoveAt(@, k)])
  /\ UNCHANGED << retired, scene, camera, controls, controlsRef, canvas, calls, started, timers, frames, handed >>

\* setTimeout(() => setAppState(AppState.READY_TO_CONVERT), 100)
ReadyTimer ==
  /\ app.readyTimers > 0
  /\ app' = Rendered(app, [app EXCEPT !.readyTimers = @ - 1, !.appState = "READY_TO_CONVERT"])
  /\ UNCHANGED << retired, scene, camera, controls, controlsRef, canvas, calls, started, timers, frames, handed >>

\* the mounted scene hands over its capture function
SceneReady ==
  /\ SceneMounted(app)
  /\ app.captureSnapshotRef = "null" \/ app.refMount # app.mounted
  /\ app' = Rendered(app, [app EXCEPT !.captureSnapshotRef = "fn", !.refMount = app.mounted])
  /\ UNCHANGED << retired, scene, camera, controls, controlsRef, canvas, calls, started, timers, frames, handed >>

\* the retry button of the error panel
Retry ==
  /\ app.errorMsg # "null"
  /\ app.appState # "READY_TO_CONVERT"
  /\ app' = Rendered(app, [app EXCEPT !.appState = "READY_TO_CONVERT"])
  /\ UNCHANGED << retired, scene, camera, controls, controlsRef, canvas, calls, started, timers, frames, handed >>

\* mutant of ReturnEarly: the state is reset before the preconditions are tested
ReturnAfterReset(a) ==
  [a EXCEPT !.appState = "ANALYZING", !.errorMsg = "null", !.snapshots = << >>,
            !.gens = Append(@, [NewGen EXCEPT !.pc = "returned"])]

\* handleGenerate returns at one of its two tests
ReturnEarly(a) == [a EXCEPT !.gens = Append(@, [NewGen EXCEPT !.pc = "returned"])]

\* handleGenerate up to its first await
HandleGenerate(a) ==
  IF a.captureSnapshotRef = "null" \/ a.geometry = "null"
    THEN ReturnEarly(a)
  ELSE IF a.apiKeyMissing
    THEN [ReturnEarly(a) EXCEPT !.alerts = @ + 1]
  ELSE [a EXCEPT !.appState = "ANALYZING", !.errorMsg = "null", !.snapshots = << >>,
                 !.captureCalls = @ + 1,
                 !.gens = Append(@, [NewGen EXCEPT !.boundTo = a.refMount])]

\* a click on the action button
GenerateClick ==
  /\ Len(app.gens) < MaxClicks
  /\ ButtonShown(app)
  /\ app' = Rendered(app, HandleGenerate(app))
  /\ UNCHANGED << retired, scene, camera, controls, controlsRef, canvas, calls, started, timers, frames, handed >>

\* the catch block of handleGenerate
Fail(a, g, msg) ==
  [a EXCEPT !.errorMsg = msg, !.appState = "ERROR",
            !.gens[g].pc = "finished", !.gens[g].outcome = "error"]

\* await captureSnapshotRef.current() settles: setSnapshots and the start of
\* the optimizations, or the catch block
CaptureSettle ==
  /\ \E g \in DOMAIN app.gens :
       /\ app.gens[g].pc = "capturing"
       /\ \/ app' = Rendered(app, [app EXCEPT !.snapshots = CapturedFrames,
                                !.gens[g].raw = CapturedFrames,
                                !.gens[g].pc = "optimizing"])
          \/ app' = Rendered(app, Fail(app, g, "capture failed"))
  /\ UNCHANGED << retired, scene, camera, controls, controlsRef, canvas, calls, started, timers, frames, handed >>

\* img.onload / img.onerror of one optimizeImage; when the last one has
\* fulfilled, Promise.all fulfils and handleGenerate runs on to the request
ImageDone ==
  /\ \E g \in DOMAIN app.gens :
       LET gen == app.gens[g]
           n   == Len(gen.raw)
       IN  /\ gen.pc = "optimizing"
           /\ \E i \in (1..n) \ {gen.done[k].index : k \in DOMAIN gen.done} :
                \/ app' = Rendered(app, Fail(app, g, "Image load failed"))
                \/ LET done == Append(gen.done, [index |-> i, value |-> OptimizeImage(gen.raw[i])])
                   IN  IF Len(done) < n
                         THEN app' = Rendered(app, [app EXCEPT !.gens[g].done = done])
                       ELSE LET optimizedSnapshots == PromiseAll(n, done)
                                base64Images == [j \in 1..n |-> StripHeader(optimizedSnapshots[j])]
                            IN  app' = Rendered(app, [app EXCEPT !.gens[g].done = done,
                                                   !.gens[g].sent = base64Images,
                                                   !.gens[g].pc = "inferring",
                                                   !.requests = Append(@, base64Images)])
  /\ UNCHANGED << retired, scene, camera, controls, controlsRef, canvas, calls, started, timers, frames, handed >>

\* await generateScadFromImage(...) settles
InferenceSettle ==
  /\ \E g \in DOMAIN app.gens :
       /\ app.gens[g].pc = "inferring"
       /\ \/ app' = Rendered(app, [app EXCEPT !.result = "response", !.appState = "COMPLETE",
                                !.gens[g].pc = "finished", !.gens[g].outcome = "complete"])
          \/ app' = Rendered(app, Fail(app, g, "inference failed"))
  /\ UNCHANGED << retired, scene, camera, controls, controlsRef, canvas, calls, started, timers, frames, handed >>

\* ------------------------------------------------------------------------
\* Capture calls
\* ------------------------------------------------------------------------

NoError == [at |-> 0, what |-> "none"]

\* a call that has not started, or whose promise has been consumed
IdleCall ==
  [ pc          |-> "idle",
    targetMesh  |-> NoMesh,
    center      |-> Zero,
    fitDistance |-> 0,
    views       |-> << >>,
    original    |-> [position |-> Zero, rotation |-> LookAt(Zero, Zero, Zero), up |-> Zero],
    autoRotate0 |-> FALSE,
    snapshots   |-> << >>,
    i           |-> 0,
    renders     |-> 0,
    thrown      |-> NoError,
    outcome     |-> "pending",
    result      |-> << >>,
    error       |-> NoError ]

CallIds == 1..MaxCalls

\* a promise has settled and its continuation (a microtask) has not run yet:
\* it runs before any timer, frame or event
Settling == \E c \in CallIds : calls[c].pc = "settled"

Init ==
  /\ scene \in Scenes
  /\ camera = InitialCamera
  /\ controls = InitialControls
  /\ controlsRef = "controls"
  /\ canvas = Image(InitialCamera)
  /\ calls = [c \in CallIds |-> IdleCall]
  /\ started = 0
  /\ timers = << >>
  /\ frames = 0
  /\ handed = 1
  /\ retired = << >>
  /\ app = InitialApp(FALSE)

\* ------------------------------------------------------------------------
\* captureMultiViews
\* ------------------------------------------------------------------------

\* mutant of ApplyPose: lookAt runs before the up-vector is copied
ApplyPoseLookAtBeforeUp(cam, center, view) ==
  LET pos == VAdd(center, view.offset)
  IN  [cam EXCEPT !.position = pos,
                  !.up       = view.up,
                  !.rotation = LookAt(pos, center, cam.up)]

\* loop body up to the await: position = center + offset, up, lookAt(center),
\* updateMatrixWorld, updateProjectionMatrix
ApplyPose(cam, center, view) ==
  LET pos == VAdd(center, view.offset)
  IN  [cam EXCEPT !.position = pos,
                  !.up       = view.up,
                  !.rotation = LookAt(pos, center, view.up)]

\* const originalPosition = camera.position.clone(); ...Rotation; ...Up
Snapshot(cam) == [position |-> cam.position, rotation |-> cam.rotation, up |-> cam.up]

\* if (controlsRef.current) { enabled = false; autoRotate = false }
SuspendControls(ctl, ref) ==
  IF ref = "controls" THEN [ctl EXCEPT !.enabled = FALSE, !.autoRotate = FALSE] ELSE ctl

\* mutant of RestoreCamera: the "snapshot" is the live camera itself, so
\* copying it back changes nothing
RestoreFromLiveReference(cam, original) == cam

\* finally: camera.up.copy(originalUp); position.copy(...); rotation.copy(...)
RestoreCamera(cam, original) ==
  [cam EXCEPT !.up = original.up, !.position = original.position, !.rotation = original.rotation]

\* finally: if (controlsRef.current) { enabled = true; autoRotate = true; ... }
ResumeControls(ctl, ref) ==
  IF ref = "controls" THEN [ctl EXCEPT !.enabled = TRUE, !.autoRotate = TRUE] ELSE ctl

\* mutant of CameraAfterCleanup: the restore comes after the final render
\* and is not reached
CameraLeftAtPose(cam, original, ctl, ref) == cam

\* finally: ... controlsRef.current.update() on the restored camera
CameraAfterCleanup(cam, original, ctl, ref) ==
  LET restored == RestoreCamera(cam, original)
  IN  IF ref = "controls" THEN ControlsUpdate(restored, ResumeControls(ctl, ref)) ELSE restored

\* the error the final gl.render of the finally block throws
CleanupError == [at |-> 0, what |-> "final render"]

\* mutant of Settle: the promise of the call is never settled
SettleNever(call, pending, finalThrows) ==
  [call EXCEPT !.thrown = pending]

\* mutant of Settle: a failed loop hands back the frames captured so far
SettlePartial(call, pending, finalThrows) ==
  LET left == [call EXCEPT !.pc = "settled", !.thrown = pending]
  IN  IF finalThrows
        THEN [left EXCEPT !.outcome = "raised", !.error = CleanupError]
      ELSE [left EXCEPT !.outcome = "returned", !.result = call.snapshots]

\* How the promise settles once the finally block is left.  pending is the
\* error thrown in the try block (NoError when the loop completed);
\* finalThrows says whether the final gl.render throws: an exception leaving
\* a finally block replaces the one that entered it.  thrown keeps the error
\* of the try block, outcome/result/error are what the caller receives.
Settle(call, pending, finalThrows) ==
  LET left == [call EXCEPT !.pc = "settled", !.thrown = pending]
  IN  IF finalThrows
        THEN [left EXCEPT !.outcome = "raised", !.error = CleanupError]
      ELSE IF pending # NoError
        THEN [left EXCEPT !.outcome = "raised", !.error = pending]
      ELSE [left EXCEPT !.outcome = "returned", !.result = call.snapshots]

\* snapshots.push(dataUrl): the encoded canvas; view records the loop
\* iteration (the pose) the frame was rendered in
Frame(view, img) == [view |-> view.name, image |-> img]

\* The synchronous part of a call, up to the first await: resolve the target,
\* fit distance, snapshot, build the views, suspend the controls, apply pose 1
\* and start its 80 ms timer.
CaptureStart ==
  /\ started < MaxCalls
  /\ ~Settling
  /\ LET c      == started + 1
         target == ResolveTarget(scene)
         center == CenterOf(target)
         fit    == FitDistanceOf(target, camera.fov)
         views  == BuildViews(fit)
     IN  /\ calls' = [calls EXCEPT ![c] =
                        [ IdleCall EXCEPT
                            !.pc          = "waiting",
                            !.targetMesh  = target,
                            !.center      = center,
                            !.fitDistance = fit,
                            !.views       = views,
                            !.original    = Snapshot(camera),
                            !.autoRotate0 = controls.autoRotate,
                            !.i           = 1 ]]
         /\ controls' = SuspendControls(controls, controlsRef)
         /\ camera' = ApplyPose(camera, center, views[1])
         /\ timers' = Append(timers, c)
         /\ started' = c
  /\ UNCHANGED << retired, app, handed, scene, controlsRef, canvas, frames >>

\* mutant of FinalRender: the cleanup issues no render
NoFinalRender(call) == call

\* finally: gl.render(scene, camera), the last statement of the cleanup
FinalRender(call) == [call EXCEPT !.renders = @ + 1]

\* mutant of LoopContinues: a failed pose is skipped and the loop goes on
LoopContinuesAfterFailure(r, call) == call.i < Len(call.views)

\* for (const view of views): the loop goes on to the next view when the
\* body completed (r = "ok") and views are left; an exception leaves the loop
LoopContinues(r, call) == r = "ok" /\ call.i < Len(call.views)

\* The continuation of a call after its 80 ms timer: render, encode, push;
\* renders counts the gl.render calls the invocation has issued;
\* then either the next pose and a new timer, or the finally block and the
\* settlement of the promise.  The renderer may throw in gl.render or in
\* toDataURL, and again in the final render.
TimerFire ==
  /\ timers # << >>
  /\ ~Settling
  /\ LET c    == Head(timers)
         call == calls[c]
         view == call.views[call.i]
     IN  \E r \in {"ok", "render", "encode"}, finalThrows \in BOOLEAN :
           LET rendered == IF r = "render" THEN canvas ELSE Image(camera)
               pending  == IF r = "ok" THEN NoError ELSE [at |-> call.i, what |-> r]
               drawn    == [call EXCEPT !.renders = @ + 1]
               pushed   == IF r = "ok"
                             THEN [drawn EXCEPT !.snapshots = Append(@, Frame(view, rendered))]
                             ELSE drawn
               more     == LoopContinues(r, call)
               after    == CameraAfterCleanup(camera, call.original, controls, controlsRef)
           IN  IF more
                 THEN /\ ~finalThrows
                      /\ calls' = [calls EXCEPT ![c] = [pushed EXCEPT !.i = @ + 1]]
                      /\ camera' = ApplyPose(camera, call.center, call.views[call.i + 1])
                      /\ canvas' = rendered
                      /\ timers' = Append(Tail(timers), c)
                      /\ UNCHANGED controls
                 ELSE /\ calls' = [calls EXCEPT ![c] =
                                        Settle(FinalRender(pushed), pending, finalThrows)]
                      /\ camera' = after
                      /\ controls' = ResumeControls(controls, controlsRef)
                      /\ canvas' = IF finalThrows THEN rendered ELSE Image(after)
                      /\ timers' = Tail(timers)
  /\ UNCHANGED << retired, app, handed, scene, controlsRef, started, frames >>

\* what is remembered of a call once its caller has resumed: the locals of
\* the call are gone; the record keeps, as history, the center, the poses
\* and the camera snapshot the call worked with
Finished(call) ==
  [IdleCall EXCEPT !.pc = "done", !.targetMesh = call.targetMesh,
                   !.center = call.center, !.fitDistance = call.fitDistance,
                   !.views = call.views, !.original = call.original]

\* return snapshots / the rejection reaches the awaiting caller
Return ==
  \E c \in CallIds :
    /\ calls[c].pc = "settled"
    /\ calls' = [calls EXCEPT ![c] = Finished(calls[c])]
    /\ UNCHANGED << retired, app, handed, scene, camera, controls, controlsRef, canvas, started, timers, frames >>

\* One frame of the render loop: OrbitControls updates the camera while it
\* is enabled, then the scene is drawn.
AnimationFrame ==
  /\ frames < MaxFrames
  /\ ~Settling
  /\ frames' = frames + 1
  /\ camera' = IF controls.enabled THEN ControlsUpdate(camera, controls) ELSE camera
  /\ canvas' = Image(camera')
  /\ UNCHANGED << retired, app, handed, scene, controls, controlsRef, calls, started, timers >>

\* no invocation of captureMultiViews is between its start and its return
NoCallInFlight == \A c \in CallIds : calls[c].pc \in {"idle", "done"}

\* A click on the action button, which App renders only while it is not
\* ANALYZING: handleGenerate calls the capture function while no earlier
\* call is in flight.
Generate == NoCallInFlight /\ CaptureStart

Next == Generate \/ TimerFire \/ Return \/ AnimationFrame

Spec == Init /\ [][Next]_vars

\* useEffect(() => { controlsRef.current = controls }, [controls]): the
\* handler's first render saw controls = null (OrbitControls registers itself
\* in the store in an effect of the same commit); the re-render that follows
\* the registration brings the controls into the ref
RegisterControls ==
  /\ controlsRef = "null"
  /\ ~Settling
  /\ controlsRef' = "controls"
  /\ UNCHANGED << retired, app, handed, scene, camera, controls, canvas, calls, started, timers, frames >>

\* The handler from its first commit on: the capture function has been
\* handed out and controlsRef.current is still null
InitRegister ==
  /\ scene = << Light, CubeMesh, GridMesh >>
  /\ camera = InitialCamera
  /\ controls = InitialControls
  /\ controlsRef = "null"
  /\ canvas = Image(InitialCamera)
  /\ calls = [c \in CallIds |-> IdleCall]
  /\ started = 0
  /\ timers = << >>
  /\ frames = 0
  /\ handed = 1
  /\ retired = << >>
  /\ app = InitialApp(FALSE)

NextRegister == Generate \/ TimerFire \/ Return \/ AnimationFrame \/ RegisterControls

SpecRegister == InitRegister /\ [][NextRegister]_vars

\* A re-render of App while the scene is mounted (any state update:
\* setAppState, setProgressText, ...).  App passes onSnapshotReady as an
\* inline arrow function, a new value at every render; it is a dependency of
\* the handler's effect, which therefore runs again: it builds a new
\* captureMultiViews over the same gl, scene and camera and hands it to
\* onSnapshotReady.
AppRender ==
  /\ handed <= MaxRenders
  /\ ~Settling
  /\ handed' = handed + 1
  /\ UNCHANGED << retired, app, scene, camera, controls, controlsRef, canvas, calls, started, timers, frames >>

InitMount == Init /\ scene = << Light, CubeMesh, GridMesh >>

NextMount == Generate \/ TimerFire \/ Return \/ AnimationFrame \/ AppRender

SpecMount == InitMount /\ [][NextMount]_vars

\* The capture under the scheduling the platform provides: a pending 80 ms
\* timer fires, gl.render and toDataURL return or throw, and the
\* continuation of a settled promise runs.
SpecLive == InitMount /\ [][Next]_vars /\ WF_vars(TimerFire) /\ WF_vars(Return)

\* A new file: handleFileUpload shows the loader (StlScene is unmounted) and
\* then mounts a fresh StlScene, whose Suspense has not resolved yet: new
\* camera and controls, no target mesh in the scene.
Remount ==
  /\ NoCallInFlight
  /\ scene' = << Light, GridMesh >>
  /\ camera' = InitialCamera
  /\ controls' = InitialControls
  /\ controlsRef' = "controls"
  /\ canvas' = Image(InitialCamera)
  /\ handed' = 1
  /\ UNCHANGED << retired, app, calls, started, timers, frames >>

\* The meshes an STL file may load as
LoadableMeshes == {CubeMesh, SlabMesh}

\* useLoader resolves: MeshViewer mounts the mesh named 'target-mesh' inside
\* <Center>, before the grid
MeshLoaded ==
  /\ ~Settling
  /\ NamedMeshes(scene) = {}
  /\ \E m \in LoadableMeshes : scene' = << Light, m, GridMesh >>
  /\ UNCHANGED << retired, app, handed, camera, controls, controlsRef, canvas, calls, started, timers, frames >>

InitReload ==
  /\ scene \in {<< Light, GridMesh >>} \cup {<< Light, m, GridMesh >> : m \in LoadableMeshes}
  /\ camera = InitialCamera
  /\ controls = InitialControls
  /\ controlsRef = "controls"
  /\ canvas = Image(InitialCamera)
  /\ calls = [c \in CallIds |-> IdleCall]
  /\ started = 0
  /\ timers = << >>
  /\ frames = 0
  /\ handed = 1
  /\ retired = << >>
  /\ app = InitialApp(FALSE)

NextReload == Generate \/ TimerFire \/ Return \/ Remount \/ MeshLoaded

SpecReload == InitReload /\ [][NextReload]_vars

\* useThree hands out another controls object and the effect stores it in
\* controlsRef.current; the object registered until now keeps the flags
\* it has
ReplaceControls ==
  /\ Len(retired) < MaxReplacements
  /\ ~Settling
  /\ controlsRef = "controls"
  /\ retired' = Append(retired, controls)
  /\ controls' = InitialControls
  /\ UNCHANGED << app, handed, scene, camera, controlsRef, canvas, calls, started, timers, frames >>

NextControls == Generate \/ TimerFire \/ Return \/ ReplaceControls

SpecControls == InitMount /\ [][NextControls]_vars

\* App on its own: the capture is a promise that settles, the scene is at rest
InitApp ==
  /\ scene = << Light, CubeMesh, GridMesh >>
  /\ camera = InitialCamera
  /\ controls = InitialControls
  /\ controlsRef = "controls"
  /\ canvas = Image(InitialCamera)
  /\ calls = [c \in CallIds |-> IdleCall]
  /\ started = 0
  /\ timers = << >>
  /\ frames = 0
  /\ handed = 1
  /\ retired = << >>
  /\ \E keyMissing \in BOOLEAN : app = InitialApp(keyMissing)

NextApp ==
  \/ FileUpload
  \/ ReaderLoad
  \/ ReaderError
  \/ ReadyTimer
  \/ SceneReady
  \/ Retry
  \/ GenerateClick
  \/ CaptureSettle
  \/ ImageDone
  \/ InferenceSettle

SpecApp == InitApp /\ [][NextApp]_vars

\* Scene graphs for the target resolution as a function of the scene: the
\* objects StlScene mounts, in different traversal orders and numbers
TargetScenes ==
  { << Light >>,
    << Light, GridMesh >>,
    << GridMesh, Light >>,
    << Light, CubeMesh, GridMesh >>,
    << Light, GridMesh, CubeMesh >>,
    << SlabMesh, GridMesh, Light >>,
    << GridMesh, CubeMesh, GridMesh, Light >>,
    << CubeMesh, Light, SlabMesh, GridMesh >> }

InitTarget ==
  /\ scene \in TargetScenes
  /\ camera = InitialCamera
  /\ controls = InitialControls
  /\ controlsRef = "controls"
  /\ canvas = Image(InitialCamera)
  /\ calls = [c \in CallIds |-> IdleCall]
  /\ started = 0
  /\ timers = << >>
  /\ frames = 0
  /\ handed = 1
  /\ retired = << >>
  /\ app = InitialApp(FALSE)

SpecTarget == InitTarget /\ [][Next]_vars

\* Fields of view and target boxes for the fit distance as a function of
\* its inputs: boxes centred on the origin with sides 2 or 6 on each axis
Fovs == {40, 60, 90, 120}

FitMesh(a, b, c) ==
  SceneObject(TRUE, "target-mesh",
              Box(Vec(-Quot(a, 2), -Quot(b, 2), -Quot(c, 2)), Vec(Quot(a, 2), Quot(b, 2), Quot(c, 2))))

FitScenes ==
  { << Light, FitMesh(a, b, c), GridMesh >> : a, b, c \in {Units(2), Units(6)} }

InitFit ==
  /\ scene \in FitScenes
  /\ camera \in {[InitialCamera EXCEPT !.fov = f] : f \in Fovs}
  /\ controls = InitialControls
  /\ controlsRef = "controls"
  /\ canvas = Image(InitialCamera)
  /\ calls = [c \in CallIds |-> IdleCall]
  /\ started = 0
  /\ timers = << >>
  /\ frames = 0
  /\ handed = 1
  /\ retired = << >>
  /\ app = InitialApp(FALSE)

SpecFit == InitFit /\ [][Next]_vars

\* The same machine when the capture function is called without regard to
\* calls in flight: a READY timer of an earlier upload that fires during a
\* capture brings the action button back while the capture is running.
NextOverlap == CaptureStart \/ TimerFire \/ Return

\* one scene suffices for it: the loaded cube
InitOverlap == Init /\ scene = << Light, CubeMesh, GridMesh >>

SpecOverlap == InitOverlap /\ [][NextOverlap]_vars

\* ------------------------------------------------------------------------
\* The consumer's labels (App.tsx)
\* ------------------------------------------------------------------------

\* mutant of ORIENTATIONS: the order of the six-view revision for the
\* cardinal views
ORIENTATIONS_SixViewOrder ==
  << "Top", "Front", "Right", "Back", "Left", "Bottom",
     "Front-Right", "Right-Back", "Back-Left", "Left-Front",
     "Top-Front", "Front-Bottom", "Bottom-Back", "Back-Top",
     "Top-Right", "Right-Bottom", "Bottom-Left", "Left-Top" >>

\* const ORIENTATIONS = [...]
ORIENTATIONS ==
  << "Top", "Bottom", "Front", "Back", "Left", "Right",
     "Front-Right", "Right-Back", "Back-Left", "Left-Front",
     "Top-Front", "Front-Bottom", "Bottom-Back", "Back-Top",
     "Top-Right", "Right-Bottom", "Bottom-Left", "Left-Top" >>

\* const VIEW_LABELS = [...map(`${name} (Global)`), ...map(`${name} (Local Detail)`)]
VIEW_LABELS ==
  [k \in 1..Len(ORIENTATIONS) |-> ORIENTATIONS[k] \o " (Global)"]
    \o [k \in 1..Len(ORIENTATIONS) |-> ORIENTATIONS[k] \o " (Local Detail)"]

\* ------------------------------------------------------------------------
\* Properties
\* ------------------------------------------------------------------------

\* the calls whose promise has just settled
SettledCalls == {c \in CallIds : calls[c].pc = "settled"}

\* the calls that have built their views and not yet been consumed
ActiveCalls == {c \in CallIds : calls[c].pc \in {"waiting", "settled"}}

\* C1: a capture call that completes without a render or encode failure
\* returns exactly 36 frames, and frame i is the one rendered in the loop
\* iteration of pose i of the call's view list (the 36 poses carry pairwise
\* different names, so the name identifies the pose).
C1_ReturnsAllFramesInPoseOrder ==
  \A c \in SettledCalls :
    LET call == calls[c]
    IN  (call.thrown = NoError /\ call.error = NoError) =>
          /\ call.outcome = "returned"
          /\ Len(call.result) = 36
          /\ Len(call.views) = 36
          /\ \A i \in 1..36 :
               /\ call.result[i].view = call.views[i].name
               /\ call.result[i].image.position = VAdd(call.center, call.views[i].offset)
          /\ \A i, j \in 1..36 : i # j => call.views[i].name # call.views[j].name

\* C1 witness: a call has returned its 36 frames, the last one from the
\* Left-Top close-up
C1_Witness ==
  \E c \in SettledCalls :
    /\ calls[c].outcome = "returned"
    /\ Len(calls[c].result) = 36
    /\ calls[c].result[36].view = "Left-Top Detail"

\* C3: the outcome of a capture call is either a complete sequence of 36
\* frames or a raised failure; when a render or encode failure occurred at
\* some pose the caller receives no frame sequence, not even the frames
\* captured before the failure.
C3_AllOrNothing ==
  \A c \in SettledCalls :
    LET call == calls[c]
    IN  /\ \/ call.outcome = "returned" /\ Len(call.result) = 36 /\ call.thrown = NoError
           \/ call.outcome = "raised" /\ call.result = << >> /\ call.error # NoError
        /\ call.thrown # NoError => call.outcome = "raised" /\ call.result = << >>

\* C3 witness: a failure at a pose k > 1, with k - 1 frames already captured,
\* ended in a rejection
C3_Witness ==
  \E c \in SettledCalls :
    /\ calls[c].thrown.at > 1
    /\ Len(calls[c].snapshots) = calls[c].thrown.at - 1
    /\ calls[c].outcome = "raised"

\* C2: when a capture call finishes, normally or after a render or encode
\* failure at any pose, the camera position, rotation and up-vector equal
\* the values they had when the call started (the snapshot), the controls
\* update of the cleanup included.
C2_CameraEqualsSnapshotAfterCall ==
  \A c \in SettledCalls :
    /\ camera.position = calls[c].original.position
    /\ camera.rotation = calls[c].original.rotation
    /\ camera.up = calls[c].original.up

\* C4: after a render or encode failure at pose k the caller receives the
\* error raised at pose k, and receives it after the cleanup has run (the
\* controls are enabled again), also when the final render of the cleanup
\* fails as well.
C4_OriginalErrorReachesCaller ==
  \A c \in SettledCalls :
    calls[c].thrown # NoError =>
      /\ calls[c].outcome = "raised"
      /\ calls[c].error = calls[c].thrown
      /\ controls.enabled

\* C5: after any capture call the controller is enabled and its autoRotate
\* switch has the value it had before the call, whether that was on or off.
C5_ControlsAsBeforeCall ==
  \A c \in SettledCalls :
    /\ controls.enabled
    /\ controls.autoRotate = calls[c].autoRotate0

\* C6: the pose sequence a call builds has exactly 36 poses; pose j (1..18)
\* lies at fitDistance x 1.6 and pose 18 + j at fitDistance x 0.55, both
\* along the normalized direction of the j-th entry of the orientation table.
C6_PoseSequenceLayout ==
  \A c \in ActiveCalls :
    LET call == calls[c]
    IN  /\ Len(baseOrientations) = 18
        /\ Len(call.views) = 36
        /\ \A j \in 1..18 :
             LET dir == Normalize(ToVector3(baseOrientations[j].vec))
             IN  /\ call.views[j].offset = VScale(dir, Quot(call.fitDistance * 8, 5))
                 /\ call.views[18 + j].offset = VScale(dir, Quot(call.fitDistance * 11, 20))

\* C6 witness: a call on the cube of side 2 (fit distance 1 / tan 20 deg = 2.747)
\* has its Top poses at heights 4.395 and 1.510 and a diagonal pose in between
C6_Witness ==
  \E c \in ActiveCalls :
    /\ calls[c].fitDistance = 2747
    /\ calls[c].views[1].offset = Vec(0, 4395, 0)
    /\ calls[c].views[19].offset = Vec(0, 1510, 0)
    /\ calls[c].views[7].offset = Vec(3107, 0, 3107)

\* C7: for every index i of a returned frame sequence, the orientation and
\* the regime of the pose that produced frame i are the ones VIEW_LABELS[i]
\* names: "<orientation> (Global)" for the pose built from that orientation
\* at the standard distance, "<orientation> (Local Detail)" for the one at
\* the detail distance.
C7_LabelsNameThePoses ==
  \A c \in SettledCalls :
    LET call == calls[c]
    IN  call.outcome = "returned" =>
          /\ Len(call.result) = Len(VIEW_LABELS)
          /\ \A i \in 1..Len(call.result) :
               \E j \in 1..Len(baseOrientations) :
                 LET o == baseOrientations[j]
                 IN  \/ /\ call.result[i].view = o.name
                        /\ call.views[i] = View(o.name, o, StandardDist(call.fitDistance))
                        /\ VIEW_LABELS[i] = o.name \o " (Global)"
                     \/ /\ call.result[i].view = o.name \o " Detail"
                        /\ call.views[i] = View(o.name \o " Detail", o, MacroDist(call.fitDistance))
                        /\ VIEW_LABELS[i] = o.name \o " (Local Detail)"

\* C7 witness: a returned sequence whose frames 2 and 25 come from the Bottom
\* pose and from the Front-Right close-up
C7_Witness ==
  \E c \in SettledCalls :
    /\ calls[c].outcome = "returned"
    /\ calls[c].result[2].view = "Bottom"
    /\ VIEW_LABELS[2] = "Bottom (Global)"
    /\ calls[c].result[25].view = "Front-Right Detail"
    /\ VIEW_LABELS[25] = "Front-Right (Local Detail)"

\* the box of the resolved mesh has size zero on every axis (a point, or
\* empty because the mesh has no vertices)
DegenerateTarget(call) == call.targetMesh.isMesh /\ BoxSize(call.targetMesh.box) = Zero

\* C8: whenever the bounding box a call uses is degenerate, the fit distance
\* of its poses is the fallback constant 100 (never 0), so that no pose puts
\* the camera at the center.
C8_DegenerateBoxUsesFallback ==
  \A c \in ActiveCalls :
    DegenerateTarget(calls[c]) =>
      /\ calls[c].fitDistance = Units(100)
      /\ \A i \in 1..Len(calls[c].views) : calls[c].views[i].offset # Zero

\* C9: when the scene holds no mesh, a call uses center (0,0,0) and the
\* fallback fit distance 100, builds all 36 poses, and, the renderer not
\* failing, returns 36 frames; nothing but a renderer failure makes it fail.
C9_NoMeshStillCaptures ==
  \A c \in ActiveCalls :
    LET call == calls[c]
    IN  AnyMeshes(scene) = {} =>
          /\ call.center = Zero
          /\ call.fitDistance = Units(100)
          /\ Len(call.views) = 36
          /\ call.pc = "settled" =>
               IF call.thrown = NoError /\ call.error = NoError
                 THEN call.outcome = "returned" /\ Len(call.result) = 36
                 ELSE call.outcome = "raised"

\* C9 witness: a call on a scene without any mesh has returned 36 frames
C9_Witness ==
  \E c \in SettledCalls :
    /\ AnyMeshes(scene) = {}
    /\ calls[c].outcome = "returned"
    /\ Len(calls[c].result) = 36
    /\ calls[c].fitDistance = 100000

\* C10: for every pose of a call, in both distance regimes, the view
\* direction (the table direction, and the pose's offset from the center
\* whenever the distance is not zero) is neither parallel nor anti-parallel
\* to the pose's up-vector: their cross product is not zero.
C10_DirectionNeverParallelToUp ==
  \A c \in ActiveCalls :
    LET call == calls[c]
    IN  /\ Len(call.views) = 36
        /\ \A i \in 1..Len(call.views) :
             LET o == baseOrientations[((i - 1) % 18) + 1]
             IN  /\ Cross(ToVector3(o.vec), call.views[i].up) # Zero
                 /\ call.fitDistance > 0 => Cross(call.views[i].offset, call.views[i].up) # Zero

\* C10 witness: a call whose Top and Bottom poses (both regimes) carry the
\* horizontal up-vectors and whose other poses carry the world-up vector
C10_Witness ==
  \E c \in ActiveCalls :
    /\ calls[c].fitDistance > 0
    /\ calls[c].views[1].up = Vec(0, 0, -1000)
    /\ calls[c].views[20].up = Vec(0, 0, 1000)
    /\ calls[c].views[11].up = Vec(0, 1000, 0)
    /\ calls[c].views[11].offset.y > 0

\* Vector3.length of a vector that may be long: the components are scaled
\* down before they are squared, so that the squares stay within the
\* integers of the model
LengthOf(u) ==
  LET k == (Max3(Abs(u.x), Abs(u.y), Abs(u.z)) \div 20000) + 1
  IN  k * VLength(Vec(Quot(u.x, k), Quot(u.y, k), Quot(u.z, k)))

\* a = b up to the resolution of the fixed-point numbers: three parts in a
\* thousand of b (a unit vector has components in thousandths) and 0.003
SameLength(a, b) == Abs(a - b) * 1000 <= 3 * b + 3000

\* C11: each of the 18 table entries, normalized, has unit length, and the
\* distance of every pose's camera position from the center is the regime
\* distance (1.6 x fit for poses 1..18, 0.55 x fit for poses 19..36), for the
\* cardinal and the diagonal entries alike.
C11_DirectionsHaveUnitLength ==
  /\ \A j \in 1..Len(baseOrientations) :
       SameLength(VLength(Normalize(ToVector3(baseOrientations[j].vec))), Units(1))
  /\ \A c \in ActiveCalls :
       LET call == calls[c]
       IN  \A i \in 1..Len(call.views) :
             LET pos  == VAdd(call.center, call.views[i].offset)
                 dist == IF i <= 18 THEN StandardDist(call.fitDistance)
                                    ELSE MacroDist(call.fitDistance)
             IN  SameLength(LengthOf(VSub(pos, call.center)), dist)

\* C11 witness: a call on the cube whose diagonal close-up Front-Right sits
\* at (1.067, 0, 1.067), at distance 1.51 from the center like the cardinal
\* close-up Top at (0, 1.510, 0)
C11_Witness ==
  \E c \in ActiveCalls :
    /\ calls[c].views[25].offset = Vec(1067, 0, 1067)
    /\ calls[c].views[19].offset = Vec(0, 1510, 0)

\* -1, 0 or 1
Signum(n) == IF n < 0 THEN -1 ELSE IF n > 0 THEN 1 ELSE 0

\* the octant, quadrant or axis a vector points into
SignPattern(u) == Vec(Signum(u.x), Signum(u.y), Signum(u.z))

\* the six unit vectors along the axes
AxisVectors ==
  { Vec(1, 0, 0), Vec(-1, 0, 0), Vec(0, 1, 0), Vec(0, -1, 0), Vec(0, 0, 1), Vec(0, 0, -1) }

\* C12: the orientation table is one fixed list of 18 entries: the six axis
\* directions first, then four diagonals in the XZ plane, four in the YZ
\* plane and four in the XY plane, pairwise distinct; and every capture
\* call, whatever the scene, the camera state and the calls before it, uses
\* entry j of it (direction and up) for pose j and for pose 18 + j.
C12_OrientationTableIsFixed ==
  /\ Len(baseOrientations) = 18
  /\ {baseOrientations[j].vec : j \in 1..6} = AxisVectors
  /\ \A j \in 7..18 :
       LET v == baseOrientations[j].vec
           plane == IF j <= 10 THEN v.y ELSE IF j <= 14 THEN v.x ELSE v.z
       IN  /\ plane = 0
           /\ Abs(v.x) + Abs(v.y) + Abs(v.z) = 2
           /\ {v.x, v.y, v.z} \subseteq {-1, 0, 1}
  /\ \A j, k \in 1..18 : j # k => baseOrientations[j].vec # baseOrientations[k].vec
  /\ \A c \in ActiveCalls :
       LET call == calls[c]
       IN  \A j \in 1..18 : \A i \in {j, 18 + j} :
             /\ call.views[i].up = ToVector3(baseOrientations[j].up)
             /\ call.fitDistance > 0 =>
                  SignPattern(call.views[i].offset) = baseOrientations[j].vec

\* C12 witness: a second call, started with the camera away from its initial
\* position, on the scene that holds only the grid, points its poses 9 and
\* 27 into the Back-Left quadrant
C12_Witness ==
  /\ started = 2
  /\ calls[2].pc = "waiting"
  /\ calls[2].original.position # InitialCamera.position
  /\ NamedMeshes(scene) = {}
  /\ calls[2].targetMesh.isMesh
  /\ SignPattern(calls[2].views[9].offset) = Vec(-1, 0, -1)
  /\ SignPattern(calls[2].views[27].offset) = Vec(-1, 0, -1)

\* the direction of the Front view (table entry 3), as an up-vector
FrontDirection == ToVector3(baseOrientations[3].vec)

\* C13 (as stated): in every call the Top and the Bottom poses both carry
\* the front-pointing up-vector (the direction of the Front view, +Z) and
\* every other pose the world-up vector (0,1,0).
C13_TopAndBottomFrontPointingUp ==
  \A c \in ActiveCalls :
    \A j \in 1..18 : \A i \in {j, 18 + j} :
      calls[c].views[i].up = IF j <= 2 THEN FrontDirection ELSE Vec(0, Units(1), 0)

\* C13 (amended): in every call the Top poses carry the back-pointing
\* up-vector (0,0,-1), the opposite of the Front direction, the Bottom poses
\* the front-pointing up-vector (0,0,1), and every other pose the world-up
\* vector (0,1,0).
C13_TopBackBottomFrontUp ==
  /\ baseOrientations[1].name = "Top"
  /\ baseOrientations[2].name = "Bottom"
  /\ baseOrientations[3].name = "Front"
  /\ FrontDirection = Vec(0, 0, Units(1))
  /\ \A c \in ActiveCalls :
       \A j \in 1..18 : \A i \in {j, 18 + j} :
         calls[c].views[i].up =
           IF j = 1 THEN VSub(Zero, FrontDirection)
           ELSE IF j = 2 THEN FrontDirection
           ELSE Vec(0, Units(1), 0)

\* C13 witness: a call whose Top close-up has up (0,0,-1), whose Bottom pose
\* has up (0,0,1) and whose Front pose has the world-up vector
C13_Witness ==
  \E c \in ActiveCalls :
    /\ calls[c].views[19].name = "Top Detail"
    /\ calls[c].views[19].up = Vec(0, 0, -1000)
    /\ calls[c].views[2].up = Vec(0, 0, 1000)
    /\ calls[c].views[3].up = Vec(0, 1000, 0)

\* the call works on a mesh with bounding box [(-1,-1,-1), (1,1,1)] seen by
\* a camera with a field of view of 40 degrees
OnTwoUnitCube(call) ==
  /\ call.targetMesh.isMesh
  /\ call.targetMesh.box = Box(Vec(-1000, -1000, -1000), Vec(1000, 1000, 1000))
  /\ camera.fov = 40

\* C14: for a mesh with bounding box [(-1,-1,-1),(1,1,1)] and a 40 degree
\* field of view the fit distance is 1 / tan 20 deg = 2.747; pose 1 is the
\* Top view at (0, 1.6 F, 0) = (0, 4.396, 0) with up (0,0,-1) and pose 19 the
\* Top close-up at (0, 0.55 F, 0) = (0, 1.511, 0) with the same up; the live
\* camera is there while the call waits for the render of these poses.
C14_EndToEndCube ==
  \A c \in ActiveCalls :
    LET call == calls[c]
        p1   == VAdd(call.center, call.views[1].offset)
        p19  == VAdd(call.center, call.views[19].offset)
    IN  OnTwoUnitCube(call) =>
          /\ SameLength(call.fitDistance, 2747)
          /\ call.views[1].name = "Top"
          /\ p1.x = 0 /\ p1.z = 0 /\ SameLength(p1.y, 4396)
          /\ call.views[1].up = Vec(0, 0, -1000)
          /\ call.views[19].name = "Top Detail"
          /\ p19.x = 0 /\ p19.z = 0 /\ SameLength(p19.y, 1511)
          /\ call.views[19].up = Vec(0, 0, -1000)
          /\ (call.pc = "waiting" /\ call.i = 1) => (camera.position = p1 /\ camera.up = call.views[1].up)
          /\ (call.pc = "waiting" /\ call.i = 19) => (camera.position = p19 /\ camera.up = call.views[19].up)

\* C14 witness: a call on the cube waits for the render of pose 19 with the
\* camera 1.51 above the origin
C14_Witness ==
  \E c \in ActiveCalls :
    /\ OnTwoUnitCube(calls[c])
    /\ calls[c].pc = "waiting"
    /\ calls[c].i = 19
    /\ camera.position = Vec(0, 1510, 0)
    /\ camera.up = Vec(0, 0, -1000)
    /\ Len(calls[c].snapshots) = 18

\* C15: for every target box with a largest dimension above zero and every
\* field of view, the fit distance of a call is (largest dimension / 2) /
\* tan(fov / 2): it is the same for boxes that agree in their largest
\* dimension, and it is strictly positive.
C15_FitDistanceFormula ==
  \A c \in ActiveCalls :
    LET call   == calls[c]
        size   == BoxSize(call.targetMesh.box)
        maxDim == Max3(size.x, size.y, size.z)
    IN  (call.targetMesh.isMesh /\ maxDim > 0) =>
          /\ call.fitDistance > 0
          /\ SameLength(call.fitDistance * TanHalfFov(camera.fov), maxDim * 500)
          /\ \A a, b \in {d \in {0, Units(1), Units(2), Units(6)} : d <= maxDim} :
               /\ call.fitDistance = ExactFitDist(Box(Zero, Vec(maxDim, a, b)), camera.fov)
               /\ call.fitDistance = ExactFitDist(Box(Zero, Vec(a, b, maxDim)), camera.fov)

\* C15 witness: a call on the 2 x 6 x 2 box with a field of view of 90
\* degrees has the fit distance 3 / tan 45 deg = 3
C15_Witness ==
  \E c \in ActiveCalls :
    /\ BoxSize(calls[c].targetMesh.box) = Vec(2000, 6000, 2000)
    /\ camera.fov = 90
    /\ calls[c].fitDistance = 3000

\* C16: a second capture call made after a first one, with no change of the
\* mesh (and no frame of the render loop) in between, works with the same
\* center and the same 36 positions and up-vectors as the first, and when it
\* has finished the camera is in the state the first call left it in.
C16_SecondCallRepeatsTheFirst ==
  (calls[1].pc = "done" /\ 2 \in ActiveCalls) =>
    /\ calls[2].center = calls[1].center
    /\ calls[2].views = calls[1].views
    /\ (calls[2].pc = "settled" /\ frames = 0) => Snapshot(camera) = calls[2].original

\* C17: while a capture call is between the suspension of interactivity and
\* its cleanup (it waits for the render of a pose), the controller that
\* drives the camera is disabled and its auto-rotation is off, whenever the
\* controller was registered with the handler.
C17_ControllerOffDuringCapture ==
  \A c \in CallIds :
    calls[c].pc = "waiting" => (~controls.enabled /\ ~controls.autoRotate)

\* C18: while a capture call waits for the render of pose i, the camera is
\* where that call put it when it applied pose i: no other actor (the
\* controller, its auto-rotation, another capture call) has changed the
\* camera position, up-vector or orientation in between.
C18_CameraUntouchedBetweenPoseAndRender ==
  \A c \in CallIds :
    LET call == calls[c]
    IN  call.pc = "waiting" =>
          LET pose == ApplyPose(camera, call.center, call.views[call.i])
          IN  /\ camera.position = VAdd(call.center, call.views[call.i].offset)
              /\ camera.up = call.views[call.i].up
              /\ camera.rotation = pose.rotation

\* C19: the capture operation is handed to the UI layer once per mounted
\* scene: onSnapshotReady has been invoked exactly once for the scene,
\* however often the UI has re-rendered since.
C19_HandedOverOnce == handed = 1

\* what the render of a pose shows when it happens after the position, the
\* up-vector and the lookAt of that pose and before any update of the next
PoseImage(call, k) ==
  LET pos == VAdd(call.center, call.views[k].offset)
  IN  [position |-> pos, rotation |-> LookAt(pos, call.center, call.views[k].up)]

\* how many timers of call c are pending
PendingTimers(c) == Cardinality({k \in 1..Len(timers) : timers[k] = c})

\* C20: within a call the steps of the poses do not interleave: while the
\* call waits in the delay of pose i, poses 1..i-1 have each been rendered,
\* encoded and appended, frame k showing the camera at position, up-vector
\* and orientation of pose k, and the camera carries the transform of pose i
\* and of no later pose; the render of pose i follows when the delay ends.
C20_StepsOfAPoseInOrder ==
  \A c \in ActiveCalls :
    LET call == calls[c]
    IN  /\ \A k \in 1..Len(call.snapshots) :
             call.snapshots[k] = [view |-> call.views[k].name, image |-> PoseImage(call, k)]
        /\ call.pc = "waiting" =>
             /\ Len(call.snapshots) = call.i - 1
             /\ PendingTimers(c) = 1
             /\ camera.position = VAdd(call.center, call.views[call.i].offset)
             /\ camera.up = call.views[call.i].up
             /\ Image(camera) = PoseImage(call, call.i)
        /\ call.pc = "settled" => PendingTimers(c) = 0

\* C20 witness: a call waits in the delay of pose 3 with the frames of poses
\* 1 and 2 appended; the canvas still shows the render of pose 2 although
\* the camera already carries pose 3
C20_Witness ==
  \E c \in ActiveCalls :
    /\ calls[c].pc = "waiting"
    /\ calls[c].i = 3
    /\ Len(calls[c].snapshots) = 2
    /\ canvas = PoseImage(calls[c], 2)
    /\ Image(camera) = PoseImage(calls[c], 3)
    /\ canvas # Image(camera)

\* the midpoint of the bounding box of the mesh a call resolved ((0,0,0)
\* when there is no mesh or the box is empty)
MidpointOfTarget(call) ==
  LET b == call.targetMesh.box
  IN  IF call.targetMesh.isMesh /\ ~b.empty
        THEN Vec(Quot(b.min.x + b.max.x, 2), Quot(b.min.y + b.max.y, 2), Quot(b.min.z + b.max.z, 2))
        ELSE Zero

\* center + direction_k x distance_k for pose k of a call, from the table
PosePosition(call, k) ==
  LET o    == baseOrientations[((k - 1) % 18) + 1]
      dist == IF k <= 18 THEN StandardDist(call.fitDistance) ELSE MacroDist(call.fitDistance)
  IN  VAdd(MidpointOfTarget(call), VScale(Normalize(ToVector3(o.vec)), dist))

C22_FailureEndsTheLoop ==
  \A c \in CallIds :
    LET call == calls[c]
    IN  /\ call.pc = "waiting" =>
             /\ call.thrown = NoError
             /\ call.renders = call.i - 1
             /\ Len(call.snapshots) = call.i - 1
        /\ (call.pc = "settled" /\ call.thrown # NoError) =>
             /\ call.i = call.thrown.at
             /\ Len(call.snapshots) = call.thrown.at - 1
             /\ call.renders = call.thrown.at + 1
             /\ PendingTimers(c) = 0
             /\ \A j \in (call.thrown.at + 1)..Len(call.views) :
                  camera.position # PosePosition(call, j) \/ call.fitDistance = 0
        /\ call.pc = "done" => PendingTimers(c) = 0

\* C22 witness: the encoding failed at pose 5: four frames, five pose
\* renders and the final render, the loop counter still at 5
C22_Witness ==
  \E c \in SettledCalls :
    /\ calls[c].thrown = [at |-> 5, what |-> "encode"]
    /\ calls[c].i = 5
    /\ calls[c].renders = 6
    /\ Len(calls[c].snapshots) = 4
    /\ timers = << >>

\* C23: a call that has finished has issued one render per pose it reached
\* and exactly one more, the final render of the cleanup: 36 + 1 for a
\* successful call.  The final render comes after the restore and after the
\* controls were re-enabled: unless it threw, the canvas shows the camera as
\* the call leaves it, with the controller enabled and the snapshot's
\* up-vector back in place.
C23_OneFinalRender ==
  \A c \in SettledCalls :
    LET call == calls[c]
        reached == IF call.thrown = NoError THEN Len(call.views) ELSE call.thrown.at
    IN  /\ call.renders = reached + 1
        /\ call.outcome = "returned" => call.renders = 36 + 1
        /\ controls.enabled
        /\ camera.up = call.original.up
        /\ call.error # CleanupError =>
             canvas = [position |-> camera.position, rotation |-> camera.rotation]

\* C23 witness: a successful call has issued 37 renders and the canvas
\* shows the camera with the snapshot's up-vector, not the last pose
C23_Witness ==
  \E c \in SettledCalls :
    /\ calls[c].outcome = "returned"
    /\ calls[c].renders = 37
    /\ canvas.rotation.up = calls[c].original.up
    /\ canvas.position # PosePosition(calls[c], 36)
    /\ canvas # calls[c].result[36].image

\* C24: the snapshot of a call holds the position, rotation and up-vector
\* the camera had in the state the call started from (before the controls
\* were suspended and the first pose applied); no step taken while the call
\* is in its loop changes it; and what the cleanup writes back are these
\* values: the camera the call leaves is the one the controls update makes
\* of the snapshot.
C24_SnapshotIsAValueCopy ==
  [][\A c \in CallIds :
       /\ (calls[c].pc = "idle" /\ calls'[c].pc = "waiting") =>
            /\ calls'[c].original =
                 [position |-> camera.position, rotation |-> camera.rotation, up |-> camera.up]
            /\ controls' = [enabled |-> FALSE, autoRotate |-> FALSE]
       /\ calls[c].pc = "waiting" =>
            /\ calls'[c].original = calls[c].original
            /\ calls'[c].pc = "settled" =>
                 LET o == calls[c].original
                     written == [camera EXCEPT !.up = o.up, !.position = o.position,
                                               !.rotation = o.rotation]
                 IN  camera' = ControlsUpdate(written, [enabled |-> TRUE, autoRotate |-> TRUE])
    ]_vars

\* C24 witness: a call has run through its 36 poses and still holds the
\* initial camera as its snapshot, which none of its frames was taken from
C24_Witness ==
  \E c \in SettledCalls :
    /\ Len(calls[c].snapshots) = 36
    /\ calls[c].original = Snapshot(InitialCamera)
    /\ \A k \in 1..36 : calls[c].snapshots[k].image.position # calls[c].original.position
    /\ camera.up = calls[c].original.up

\* C25: when the scene holds a mesh named 'target-mesh', the box of a call
\* is that of a mesh with this name, whatever other meshes there are and
\* wherever they come in the traversal; when no mesh has the name but some
\* mesh exists, it is the box of one of the meshes; center and fit distance
\* come from that box, and the fallback distance 100 is used exactly when
\* the scene has no mesh.
C25_TargetResolution ==
  \A c \in ActiveCalls :
    LET call   == calls[c]
        named  == {k \in DOMAIN scene : scene[k].isMesh /\ scene[k].name = "target-mesh"}
        meshes == {k \in DOMAIN scene : scene[k].isMesh}
    IN  /\ named # {} => \E k \in named : call.targetMesh = scene[k]
        /\ (named = {} /\ meshes # {}) => \E k \in meshes : call.targetMesh = scene[k]
        /\ meshes = {} => (~call.targetMesh.isMesh /\ call.fitDistance = Units(100))
        /\ meshes # {} =>
             /\ call.targetMesh.isMesh
             /\ call.center = BoxCenter(call.targetMesh.box)
             /\ call.fitDistance = ExactFitDist(call.targetMesh.box, camera.fov)
             /\ call.fitDistance # Units(100)

\* C25 witness: the named cube is found between two unnamed grid meshes
C25_Witness ==
  \E c \in ActiveCalls :
    /\ Len(scene) = 4
    /\ scene[1] = GridMesh
    /\ scene[3] = GridMesh
    /\ calls[c].targetMesh = CubeMesh
    /\ calls[c].fitDistance = 2747

\* C26: every capture call measures the scene as it is when the call starts:
\* its target, center, fit distance and poses are those of the scene of that
\* moment, also for a second call that starts after the mesh has changed.
C26_MeasuredAtEveryStart ==
  [][\A c \in CallIds :
       (calls[c].pc = "idle" /\ calls'[c].pc = "waiting") =>
         LET named  == {k \in DOMAIN scene : scene[k].isMesh /\ scene[k].name = "target-mesh"}
             call   == calls'[c]
         IN  /\ named # {} => \E k \in named : call.targetMesh = scene[k]
             /\ named = {} => call.targetMesh = GridMesh
             /\ call.center = BoxCenter(call.targetMesh.box)
             /\ call.fitDistance = ExactFitDist(call.targetMesh.box, camera.fov)
             /\ call.views = BuildViews(call.fitDistance)
  ]_vars

\* C26 witness: the first call ran before the mesh had loaded and measured
\* the grid; the second call runs on the loaded slab and has its own
\* distance and poses
C26_Witness ==
  /\ calls[1].pc = "done"
  /\ calls[1].targetMesh = GridMesh
  /\ calls[2].pc = "waiting"
  /\ calls[2].targetMesh = SlabMesh
  /\ calls[2].fitDistance = ExactFitDist(SlabMesh.box, 40)
  /\ calls[2].fitDistance # calls[1].fitDistance
  /\ calls[2].views # calls[1].views

\* C27: a capture call that has started settles, with 36 frames or with an
\* error, with the controller enabled again, and its caller resumes; the
\* loop never goes beyond pose 36.
C27_EveryCallFinishes ==
  /\ [](\A c \in CallIds :
          /\ calls[c].i <= 36
          /\ calls[c].renders <= 37
          /\ Len(calls[c].snapshots) <= 36
          /\ calls[c].pc = "settled" =>
               /\ controls.enabled
               /\ \/ calls[c].outcome = "returned" /\ Len(calls[c].result) = 36
                  \/ calls[c].outcome = "raised" /\ calls[c].error # NoError)
  /\ \A c \in CallIds : (calls[c].pc = "waiting") ~> (calls[c].pc = "done")

\* C27 witness: one call has come back to its caller, the next one has gone
\* through all 36 poses and has settled with a failure of its last render
C27_Witness ==
  /\ calls[1].pc = "done"
  /\ calls[2].pc = "settled"
  /\ calls[2].i = 36
  /\ calls[2].outcome = "raised"
  /\ timers = << >>

\* C28: the images handleGenerate passes to generateScadFromImage are the
\* captured frames, one for one and in capture order: image i is the
\* optimized frame i without its data-URL header, in whatever order the
\* optimizations fulfilled.
C28_ImagesSentInCaptureOrder ==
  /\ \A g \in DOMAIN app.gens :
       app.gens[g].pc \in {"inferring", "finished"} /\ app.gens[g].sent # << >> =>
         /\ app.gens[g].raw = [k \in 1..MaxImages |-> DataUrl(k)]
         /\ Len(app.gens[g].sent) = Len(app.gens[g].raw)
         /\ \A i \in 1..Len(app.gens[g].raw) :
              /\ app.gens[g].sent[i] = OptimizeImage(app.gens[g].raw[i]).body
              /\ app.gens[g].sent[i].frame = i
              /\ app.gens[g].sent[i].quality = 80
  /\ \A r \in DOMAIN app.requests :
       \E g \in DOMAIN app.gens : app.gens[g].sent = app.requests[r]
  /\ \A g \in DOMAIN app.gens :
       app.gens[g].pc = "inferring" => \E r \in DOMAIN app.requests : app.requests[r] = app.gens[g].sent

\* C28 witness: a request went out although the last frame was optimized
\* first and the first one last
C28_Witness ==
  \E g \in DOMAIN app.gens :
    /\ app.gens[g].pc = "inferring"
    /\ app.gens[g].done[1].index = MaxImages
    /\ app.gens[g].done[MaxImages].index = 1
    /\ Len(app.requests) = 1

\* C29: once the UI state is ANALYZING it changes only to COMPLETE or to
\* ERROR, and to ERROR only with the error message set, whatever uploads,
\* reader completions, ready timers and clicks happen meanwhile.
C29_AnalyzingEndsInCompleteOrError ==
  [][app.appState = "ANALYZING" =>
       /\ app'.appState \in {"ANALYZING", "COMPLETE", "ERROR"}
       /\ app'.appState = "ERROR" => app'.errorMsg # "null"
       /\ app'.appState = "COMPLETE" =>
            \E g \in DOMAIN app.gens :
              app.gens[g].pc = "inferring" /\ app'.gens[g].outcome = "complete"
  ]_vars

\* C30: an invocation of handleGenerate without a registered capture
\* function, without a geometry or without an API key returns at once: no
\* capture call, no request, and appState, errorMsg, snapshots and result
\* stay as they are.
C30_GenerateWithoutPreconditions ==
  [][(/\ Len(app'.gens) = Len(app.gens) + 1
      /\ \/ app.captureSnapshotRef = "null"
         \/ app.geometry = "null"
         \/ app.apiKeyMissing) =>
       /\ app'.gens[Len(app'.gens)].pc = "returned"
       /\ app'.captureCalls = app.captureCalls
       /\ app'.requests = app.requests
       /\ app'.appState = app.appState
       /\ app'.errorMsg = app.errorMsg
       /\ app'.snapshots = app.snapshots
       /\ app'.result = app.result
  ]_vars

\* C30 witness: one click came before the scene had handed over its capture
\* function, the next one found the API key missing (one alert); neither
\* started a capture
C30_Witness ==
  /\ Len(app.gens) = 2
  /\ app.gens[1].pc = "returned"
  /\ app.gens[2].pc = "returned"
  /\ app.apiKeyMissing
  /\ app.captureSnapshotRef = "fn"
  /\ app.alerts = 1
  /\ app.captureCalls = 0
  /\ app.appState = "READY_TO_CONVERT"

\* the invocations of handleGenerate whose capture call has not settled
Capturing == {g \in DOMAIN app.gens : app.gens[g].pc = "capturing"}

\* C31: at most one capture call is in progress at any time, whatever
\* uploads, reader completions, ready timers, generate and retry clicks
\* happen.
C31_AtMostOneCapture == Cardinality(Capturing) <= 1

\* C32: while a capture call started by handleGenerate is in progress, the
\* renderer, scene and camera it works on are those of the scene on screen.
C32_CaptureOnTheMountedScene ==
  \A g \in Capturing : app.gens[g].boundTo # 0 /\ app.gens[g].boundTo = app.mounted

\* C33: the controller a capture call disables is the one its cleanup
\* enables again: once a call has finished no controller object is left
\* disabled, also when the registered controller changed during the call.
C33_NoControllerLeftDisabled ==
  \A c \in SettledCalls :
    /\ controls.enabled
    /\ \A k \in DOMAIN retired : retired[k].enabled

\* C34: in the cleanup the camera is restored and the controls are enabled
\* before the controls update and the final render run, so when the final
\* render fails the camera is the restored one (as the controls update
\* leaves it), not one of the capture poses, and the controls are on.
C34_RestoredBeforeFinalRender ==
  \A c \in SettledCalls :
    calls[c].error = CleanupError =>
      LET o        == calls[c].original
          restored == [camera EXCEPT !.up = o.up, !.position = o.position, !.rotation = o.rotation]
      IN  /\ calls[c].outcome = "raised"
          /\ controls.enabled
          /\ controls.autoRotate
          /\ camera.up = o.up
          /\ camera = ControlsUpdate(restored, controls)
          /\ \A k \in 1..Len(calls[c].views) : camera.position # PosePosition(calls[c], k)

\* C34 witness: all 36 poses were captured and only the final render of the
\* cleanup failed
C34_Witness ==
  \E c \in SettledCalls :
    /\ calls[c].error = CleanupError
    /\ calls[c].thrown = NoError
    /\ Len(calls[c].snapshots) = 36
    /\ controls.enabled
    /\ camera.up = calls[c].original.up

====
